---- MODULE Spec2Model ----
(***************************************************************************)
(* Detective Quest, "mestre" program (src/algoritmos_avancados.c, lines    *)
(* 455-882): a binary tree of rooms walked by the player, a binary search  *)
(* tree of collected clues, a chained hash table clue -> suspect, and the  *)
(* final judgment.                                                         *)
(*                                                                         *)
(* C strings are sequences of byte values (the source file is UTF-8), so   *)
(* that strcmp, strncpy, tolower and the hash are computed, not assumed.   *)
(* A pointer to a room is its creation index (0 is NULL); a clue tree is   *)
(* <<>> (NULL) or <<pista, esquerda, direita>>; a char* result is <<>>     *)
(* (NULL) or <<string>>.                                                   *)
(***************************************************************************)
EXTENDS Integers, Sequences, FiniteSets, TLC

VARIABLES
    pc,               \* where main is: "inicio", "prompt" (blocked in the
                      \* scanf of explorarSalas), "acusacao" (blocked in the
                      \* scanf of verificarSuspeitoFinal), "fim", "abortado",
                      \* or "estruturas" (the data structures on their own)
    ctype,            \* what the C library's tolower does with a negative
                      \* char other than EOF (fixed for a build)
    mapa,             \* the rooms allocated so far: index -> struct Sala
    salaAtual,        \* explorarSalas: salaAtual (0 = NULL)
    escolha,          \* explorarSalas: escolha, <<>> while uninitialized
    pistasColetadas,  \* root of the clue BST
    hashSuspeitos,    \* SuspeitoHash.tabela: bucket -> chain, head first
    acusado,          \* verificarSuspeitoFinal: acusado, <<>> = not read,
                      \* <<s>> = holds the string s
    contagem,         \* verificarSuspeitoFinal: contagem (-1 before it is set)
    veredito,         \* "nenhum", "sustentada" or "fraca"
    codigoSaida,      \* process exit status, -1 while running
    liberados,        \* the accesses (reads and free() calls) made by
                      \* liberarMapa, liberarPistas and liberarHash
    lidos,            \* number of reads made on stdin
    eof,              \* stdin is exhausted
    coletas,          \* history: room -> number of times its clue was collected
    falhas,           \* history: the allocation sites where malloc returned NULL
    ultimaInsercao,   \* history: arguments of the last inserirNaHash call
    alocados,         \* history: number of successful malloc calls, per type
    fases,            \* history: the phases of main entered so far, in order
    caminho           \* history: the successive values of salaAtual

vars == <<pc, ctype, mapa, salaAtual, escolha, pistasColetadas, hashSuspeitos,
          acusado, contagem, veredito, codigoSaida, liberados, lidos, eof,
          coletas, falhas, ultimaInsercao, alocados, fases, caminho>>

(* Bounds of the model *)

\* reads of stdin in one run
MaxLidos == 5
\* nodes of a clue tree built from the test keys
MaxNos == 4
\* entries of a hash table built from the test keys
MaxEntradas == 3

(* Program constants *)

TAMANHO_HASH == 10
\* strncpy limit of Sala.nome, Sala.suspeito_alvo and HashEntry.suspeito
MaxNome == 49
\* strncpy limit of Sala.pista, PistaNode.pista and HashEntry.pista
MaxPista == 99
\* int pistas_minimas = 2
pistas_minimas == 2
\* unsigned long hash = 5381
SementeHash == 5381
EXIT_FAILURE == 1

NULL == <<>>

(* C library *)

Min(a, b) == IF a < b THEN a ELSE b

\* strncpy(dst, s, n); dst[n] = '\0'
Truncar(s, n) == SubSeq(s, 1, Min(Len(s), n))

\* strcmp: sign of the first differing byte (as unsigned char); a proper
\* prefix is smaller
RECURSIVE strcmp(_, _)
strcmp(a, b) ==
    IF a = <<>> /\ b = <<>> THEN 0
    ELSE IF a = <<>> THEN -1
    ELSE IF b = <<>> THEN 1
    ELSE IF Head(a) < Head(b) THEN -1
    ELSE IF Head(a) > Head(b) THEN 1
    ELSE strcmp(Tail(a), Tail(b))

\* the int value of a char holding byte b (char is signed on this build)
CharDe(b) == IF b >= 128 THEN b - 256 ELSE b

CtypeModos == {"tabela", "identidade"}

\* tolower that returns its argument
tolower_SemConversao(c, modo) == c

\* tolower in the "C" locale.  For a negative argument other than EOF the
\* behaviour is undefined: a table-driven library returns the byte value
\* (modo "tabela"), a comparing one returns the argument (modo "identidade").
tolower(c, modo) ==
    IF c >= 65 /\ c <= 90 THEN c + 32
    ELSE IF c < -1 /\ modo = "tabela" THEN c + 256
    ELSE c


(* unsigned long (64 bits) as four 16-bit limbs, least significant first *)

Base == 65536

\* conversion of an int to unsigned long (modulo 2^64), for -Base < i
ULongDe(i) ==
    IF i >= 0 THEN <<i % Base, i \div Base, 0, 0>>
    ELSE <<Base + i, Base - 1, Base - 1, Base - 1>>

\* a + b modulo 2^64
SomaULong(a, b) ==
    LET s1 == a[1] + b[1]
        s2 == a[2] + b[2] + (s1 \div Base)
        s3 == a[3] + b[3] + (s2 \div Base)
        s4 == a[4] + b[4] + (s3 \div Base)
    IN  <<s1 % Base, s2 % Base, s3 % Base, s4 % Base>>

\* a << 5 modulo 2^64
Desloca5(a) ==
    LET s1 == a[1] * 32
        s2 == a[2] * 32 + (s1 \div Base)
        s3 == a[3] * 32 + (s2 \div Base)
        s4 == a[4] * 32 + (s3 \div Base)
    IN  <<s1 % Base, s2 % Base, s3 % Base, s4 % Base>>

\* a % m, for a small m
RestoULong(a, m) ==
    LET r4 == a[4] % m
        r3 == (r4 * Base + a[3]) % m
        r2 == (r3 * Base + a[2]) % m
    IN  (r2 * Base + a[1]) % m

(* Hash table *)

\* the while loop of calcularHash: hash = ((hash << 5) + hash) + tolower(c).
\* (The test h = h only makes the value of h be computed at each iteration.)
RECURSIVE HashLoop(_, _, _)
HashLoop(hash, chave, modo) ==
    IF chave = <<>> THEN hash
    ELSE LET c == tolower(CharDe(Head(chave)), modo)
             h == SomaULong(SomaULong(Desloca5(hash), hash), ULongDe(c))
         IN  IF h = h THEN HashLoop(h, Tail(chave), modo) ELSE h

calcularHash(chave, modo) ==
    RestoULong(HashLoop(ULongDe(SementeHash), chave, modo), TAMANHO_HASH)

inicializarHash == [i \in 0 .. (TAMANHO_HASH - 1) |-> <<>>]

\* inserirNaHash with novoEntry->proximo = NULL: the new entry replaces the
\* chain of its bucket
inserirNaHash_SemEncadear(sh, pista, suspeito, alocou, modo) ==
    LET indice    == calcularHash(pista, modo)
        novoEntry == [pista    |-> Truncar(pista, MaxPista),
                      suspeito |-> Truncar(suspeito, MaxNome)]
    IN  IF ~alocou THEN sh
        ELSE [sh EXCEPT ![indice] = <<novoEntry>>]

\* alocou: malloc returned a HashEntry; otherwise the function prints a
\* message and returns with the table untouched
inserirNaHash(sh, pista, suspeito, alocou, modo) ==
    LET indice    == calcularHash(pista, modo)
        novoEntry == [pista    |-> Truncar(pista, MaxPista),
                      suspeito |-> Truncar(suspeito, MaxNome)]
    IN  IF ~alocou THEN sh
        ELSE [sh EXCEPT ![indice] = <<novoEntry>> \o sh[indice]]

\* the scan of one chain: <<suspeito>> of the first entry whose key is
\* equal to pista, NULL when there is none
RECURSIVE ProcurarNaCadeia(_, _)
ProcurarNaCadeia(current, pista) ==
    IF current = <<>> THEN NULL
    ELSE IF strcmp(Head(current).pista, pista) = 0
         THEN <<Head(current).suspeito>>
         ELSE ProcurarNaCadeia(Tail(current), pista)

encontrarSuspeito(sh, pista, modo) ==
    ProcurarNaCadeia(sh[calcularHash(pista, modo)], pista)

(* Clue BST *)

criarPistaNode(conteudoPista) == <<Truncar(conteudoPista, MaxPista), NULL, NULL>>

\* inserirPista with "else" in place of "else if (comparacao > 0)": an equal
\* key is inserted again, to the right
RECURSIVE inserirPista_IgualADireita(_, _)
inserirPista_IgualADireita(raiz, conteudoPista) ==
    IF raiz = NULL THEN criarPistaNode(conteudoPista)
    ELSE LET comparacao == strcmp(conteudoPista, raiz[1])
         IN  IF comparacao < 0
                 THEN <<raiz[1], inserirPista_IgualADireita(raiz[2], conteudoPista),
                        raiz[3]>>
                 ELSE <<raiz[1], raiz[2],
                        inserirPista_IgualADireita(raiz[3], conteudoPista)>>

\* inserirPista with the two subtrees exchanged: smaller keys go right
RECURSIVE inserirPista_LadosTrocados(_, _)
inserirPista_LadosTrocados(raiz, conteudoPista) ==
    IF raiz = NULL THEN criarPistaNode(conteudoPista)
    ELSE LET comparacao == strcmp(conteudoPista, raiz[1])
         IN  IF comparacao < 0
                 THEN <<raiz[1], raiz[2],
                        inserirPista_LadosTrocados(raiz[3], conteudoPista)>>
             ELSE IF comparacao > 0
                 THEN <<raiz[1], inserirPista_LadosTrocados(raiz[2], conteudoPista),
                        raiz[3]>>
             ELSE raiz

RECURSIVE inserirPista(_, _)
inserirPista(raiz, conteudoPista) ==
    IF raiz = NULL THEN criarPistaNode(conteudoPista)
    ELSE LET comparacao == strcmp(conteudoPista, raiz[1])
         IN  IF comparacao < 0
                 THEN <<raiz[1], inserirPista(raiz[2], conteudoPista), raiz[3]>>
             ELSE IF comparacao > 0
                 THEN <<raiz[1], raiz[2], inserirPista(raiz[3], conteudoPista)>>
             ELSE raiz

\* whether inserirPista reaches criarPistaNode, i.e. calls malloc
RECURSIVE InserirAloca(_, _)
InserirAloca(raiz, conteudoPista) ==
    IF raiz = NULL THEN TRUE
    ELSE LET comparacao == strcmp(conteudoPista, raiz[1])
         IN  IF comparacao < 0 THEN InserirAloca(raiz[2], conteudoPista)
             ELSE IF comparacao > 0 THEN InserirAloca(raiz[3], conteudoPista)
             ELSE FALSE

\* the lines printed by exibirPistas, in order (in-order traversal)
RECURSIVE exibirPistas(_)
exibirPistas(raiz) ==
    IF raiz = NULL THEN <<>>
    ELSE exibirPistas(raiz[2]) \o <<raiz[1]>> \o exibirPistas(raiz[3])

\* contarPistasParaSuspeito without the recursive call on raiz->esquerda
RECURSIVE contarPistasParaSuspeito_SemEsquerda(_, _, _, _)
contarPistasParaSuspeito_SemEsquerda(raiz, sh, nome, modo) ==
    IF raiz = NULL THEN 0
    ELSE LET suspeitoDaPista == encontrarSuspeito(sh, raiz[1], modo)
             noAtual == IF suspeitoDaPista # NULL
                           /\ strcmp(suspeitoDaPista[1], nome) = 0
                        THEN 1 ELSE 0
         IN  noAtual + contarPistasParaSuspeito_SemEsquerda(raiz[3], sh, nome, modo)

\* contarPistasParaSuspeito without the strcmp against the accused: every
\* clue found in the hash table counts
RECURSIVE contarPistasParaSuspeito_SemComparar(_, _, _, _)
contarPistasParaSuspeito_SemComparar(raiz, sh, nome, modo) ==
    IF raiz = NULL THEN 0
    ELSE LET suspeitoDaPista == encontrarSuspeito(sh, raiz[1], modo)
             noAtual == IF suspeitoDaPista # NULL THEN 1 ELSE 0
         IN  noAtual + contarPistasParaSuspeito_SemComparar(raiz[2], sh, nome, modo)
                     + contarPistasParaSuspeito_SemComparar(raiz[3], sh, nome, modo)

RECURSIVE contarPistasParaSuspeito(_, _, _, _)
contarPistasParaSuspeito(raiz, sh, nome, modo) ==
    IF raiz = NULL THEN 0
    ELSE LET suspeitoDaPista == encontrarSuspeito(sh, raiz[1], modo)
             noAtual == IF suspeitoDaPista # NULL
                           /\ strcmp(suspeitoDaPista[1], nome) = 0
                        THEN 1 ELSE 0
         IN  noAtual + contarPistasParaSuspeito(raiz[2], sh, nome, modo)
                     + contarPistasParaSuspeito(raiz[3], sh, nome, modo)

(* Release of the memory.  Each liberar* function is the sequence of its    *)
(* accesses to the nodes: "ler" is a read of a field of the node no, "free" *)
(* is free(no).                                                             *)

Ler(no)  == [op |-> "ler", no |-> no]
Free(no) == [op |-> "free", no |-> no]

\* liberarPistas: raiz->esquerda is read and freed, raiz->direita is read
\* and freed, then raiz is freed.  A node is named by its clue text.
RECURSIVE liberarPistas(_)
liberarPistas(raiz) ==
    IF raiz = NULL THEN <<>>
    ELSE <<Ler(raiz[1])>> \o liberarPistas(raiz[2])
         \o <<Ler(raiz[1])>> \o liberarPistas(raiz[3])
         \o <<Free(raiz[1])>>

\* the while loop of liberarHash on the chain of bucket i, from its k-th
\* entry (current): temp = current; current = current->proximo; free(temp).
\* An entry is named by its bucket and its place in the chain.
RECURSIVE LiberarCadeia(_, _, _)
LiberarCadeia(i, current, k) ==
    IF current = <<>> THEN <<>>
    ELSE <<Ler(<<i, k>>), Free(<<i, k>>)>> \o LiberarCadeia(i, Tail(current), k + 1)

\* the for loop of liberarHash, from bucket i
RECURSIVE LiberarBaldes(_, _)
LiberarBaldes(sh, i) ==
    IF i >= TAMANHO_HASH THEN <<>>
    ELSE LiberarCadeia(i, sh[i], 1) \o LiberarBaldes(sh, i + 1)

liberarHash(sh) == LiberarBaldes(sh, 0)

(* Map of the mansion *)

criarSala(nomeSala, conteudoPista, alvo) ==
    [nome          |-> Truncar(nomeSala, MaxNome),
     pista         |-> Truncar(conteudoPista, MaxPista),
     suspeito_alvo |-> Truncar(alvo, MaxNome),
     esquerda      |-> 0,
     direita       |-> 0]

\* the criarSala calls of main, in order, with the room (pai) and the field
\* (lado) the result is stored in
SalasDeMain == <<
    \* line 843: "Hall de Entrada", "A porta estava aberta.", "Coronel Mostarda"
    [nome  |-> <<72, 97, 108, 108, 32, 100, 101, 32, 69, 110, 116, 114, 97, 100, 97>>,
     pista |-> <<65, 32, 112, 111, 114, 116, 97, 32, 101, 115, 116, 97, 118, 97, 32, 97, 98, 101, 114, 116, 97, 46>>,
     alvo  |-> <<67, 111, 114, 111, 110, 101, 108, 32, 77, 111, 115, 116, 97, 114, 100, 97>>,
     pai   |-> 0, lado |-> "raiz"],
    \* line 846: "Sala de Estar", "Um colete ensanguentado.", "D. Branca"
    [nome  |-> <<83, 97, 108, 97, 32, 100, 101, 32, 69, 115, 116, 97, 114>>,
     pista |-> <<85, 109, 32, 99, 111, 108, 101, 116, 101, 32, 101, 110, 115, 97, 110, 103, 117, 101, 110, 116, 97, 100, 111, 46>>,
     alvo  |-> <<68, 46, 32, 66, 114, 97, 110, 99, 97>>,
     pai   |-> 1, lado |-> "e"],
    \* line 847: "Cozinha", "Um pote de veneno vazio.", "Prof. Plum"
    [nome  |-> <<67, 111, 122, 105, 110, 104, 97>>,
     pista |-> <<85, 109, 32, 112, 111, 116, 101, 32, 100, 101, 32, 118, 101, 110, 101, 110, 111, 32, 118, 97, 122, 105, 111, 46>>,
     alvo  |-> <<80, 114, 111, 102, 46, 32, 80, 108, 117, 109>>,
     pai   |-> 1, lado |-> "d"],
    \* line 850: "Biblioteca", "Um recado escrito 'A Sra. em perigo'.", "D. Branca"
    [nome  |-> <<66, 105, 98, 108, 105, 111, 116, 101, 99, 97>>,
     pista |-> <<85, 109, 32, 114, 101, 99, 97, 100, 111, 32, 101, 115, 99, 114, 105, 116, 111, 32, 39, 65, 32, 83, 114, 97, 46, 32, 101, 109, 32, 112, 101, 114, 105, 103, 111, 39, 46>>,
     alvo  |-> <<68, 46, 32, 66, 114, 97, 110, 99, 97>>,
     pai   |-> 2, lado |-> "e"],
    \* line 851: "Sala de Jantar", "Uma ta\xc3\xa7a de vinho intacta.", ""
    [nome  |-> <<83, 97, 108, 97, 32, 100, 101, 32, 74, 97, 110, 116, 97, 114>>,
     pista |-> <<85, 109, 97, 32, 116, 97, 195, 167, 97, 32, 100, 101, 32, 118, 105, 110, 104, 111, 32, 105, 110, 116, 97, 99, 116, 97, 46>>,
     alvo  |-> <<>>,
     pai   |-> 2, lado |-> "d"],
    \* line 854: "Despensa", "Uma chave de fenda suja.", "Coronel Mostarda"
    [nome  |-> <<68, 101, 115, 112, 101, 110, 115, 97>>,
     pista |-> <<85, 109, 97, 32, 99, 104, 97, 118, 101, 32, 100, 101, 32, 102, 101, 110, 100, 97, 32, 115, 117, 106, 97, 46>>,
     alvo  |-> <<67, 111, 114, 111, 110, 101, 108, 32, 77, 111, 115, 116, 97, 114, 100, 97>>,
     pai   |-> 3, lado |-> "e"],
    \* line 855: "Jardim de Inverno", "Um di\xc3\xa1rio com as iniciais 'C. M.'.", "Coronel Mostarda"
    [nome  |-> <<74, 97, 114, 100, 105, 109, 32, 100, 101, 32, 73, 110, 118, 101, 114, 110, 111>>,
     pista |-> <<85, 109, 32, 100, 105, 195, 161, 114, 105, 111, 32, 99, 111, 109, 32, 97, 115, 32, 105, 110, 105, 99, 105, 97, 105, 115, 32, 39, 67, 46, 32, 77, 46, 39, 46>>,
     alvo  |-> <<67, 111, 114, 111, 110, 101, 108, 32, 77, 111, 115, 116, 97, 114, 100, 97>>,
     pai   |-> 3, lado |-> "d"] >>

NumSalas == Len(SalasDeMain)

\* the room stored in field lado of room r among the first n rooms, 0 if none
FilhoDe(r, lado, n) ==
    LET cs == {c \in 1 .. n : SalasDeMain[c].pai = r /\ SalasDeMain[c].lado = lado}
    IN  IF cs = {} THEN 0 ELSE CHOOSE c \in cs : TRUE

\* the map after the first n criarSala calls of main and their assignments
MapaAte(n) ==
    [r \in 1 .. n |->
        [criarSala(SalasDeMain[r].nome, SalasDeMain[r].pista, SalasDeMain[r].alvo)
            EXCEPT !.esquerda = FilhoDe(r, "e", n),
                   !.direita  = FilhoDe(r, "d", n)]]

\* liberarMapa with free(raiz) made before the two recursive calls
RECURSIVE liberarMapa_FreeAntes(_, _)
liberarMapa_FreeAntes(m, raiz) ==
    IF raiz = 0 THEN <<>>
    ELSE <<Free(raiz)>>
         \o <<Ler(raiz)>> \o liberarMapa_FreeAntes(m, m[raiz].esquerda)
         \o <<Ler(raiz)>> \o liberarMapa_FreeAntes(m, m[raiz].direita)

\* liberarMapa: raiz->esquerda is read and freed, raiz->direita is read and
\* freed, then raiz is freed
RECURSIVE liberarMapa(_, _)
liberarMapa(m, raiz) ==
    IF raiz = 0 THEN <<>>
    ELSE <<Ler(raiz)>> \o liberarMapa(m, m[raiz].esquerda)
         \o <<Ler(raiz)>> \o liberarMapa(m, m[raiz].direita)
         \o <<Free(raiz)>>

(* Standard input *)

\* the characters the player may type at the prompt of explorarSalas:
\* e E d D s S x
Teclas == {101, 69, 100, 68, 115, 83, 120}

EhSair(c)     == c = 115 \/ c = 83
EhEsquerda(c) == c = 101 \/ c = 69
EhDireita(c)  == c = 100 \/ c = 68

EhEspaco(b) == b = 32 \/ (b >= 9 /\ b <= 13)

RECURSIVE PularEspacos(_)
PularEspacos(s) ==
    IF s # <<>> /\ EhEspaco(Head(s)) THEN PularEspacos(Tail(s)) ELSE s

RECURSIVE AteFimDeLinha(_)
AteFimDeLinha(s) ==
    IF s = <<>> \/ Head(s) = 10 THEN <<>>
    ELSE <<Head(s)>> \o AteFimDeLinha(Tail(s))

\* scanf(" %49[^\n]", acusado) on the pending input s: the string stored,
\* <<>> when nothing but white space is left (the conversion fails)
LerLinha(s) == Truncar(AteFimDeLinha(PularEspacos(s)), MaxNome)

\* "Coronel Mostarda"
CoronelMostarda ==
    <<67, 111, 114, 111, 110, 101, 108, 32, 77, 111, 115, 116, 97, 114, 100, 97>>
\* "D. Branca"
DBranca ==
    <<68, 46, 32, 66, 114, 97, 110, 99, 97>>
\* "Prof. Plum"
ProfPlum ==
    <<80, 114, 111, 102, 46, 32, 80, 108, 117, 109>>
\* "Sra. Pavao"
SraPavao ==
    <<83, 114, 97, 46, 32, 80, 97, 118, 97, 111>>
\* "coronel mostarda"
MostardaMinusculo ==
    <<99, 111, 114, 111, 110, 101, 108, 32, 109, 111, 115, 116, 97, 114, 100, 97>>

\* what may be pending on stdin when the accusation is read
Entradas ==
    { CoronelMostarda \o <<10>>,
      <<32, 32>> \o CoronelMostarda \o <<10>>,
      CoronelMostarda \o <<32, 10>>,
      MostardaMinusculo \o <<10>>,
      DBranca \o <<10>> \o ProfPlum \o <<10>>,
      ProfPlum \o <<10>>,
      SraPavao \o <<10>>,
      <<10, 32, 10>> }

\* contents an uninitialized acusado buffer is taken to hold
Lixo == { <<>>, CoronelMostarda, SraPavao }

(* The program *)

Init ==
    /\ pc = "inicio"
    /\ ctype \in CtypeModos
    /\ mapa = <<>>
    /\ salaAtual = 0
    /\ escolha = <<>>
    /\ pistasColetadas = NULL
    /\ hashSuspeitos = inicializarHash
    /\ acusado = <<>>
    /\ contagem = -1
    /\ veredito = "nenhum"
    /\ codigoSaida = -1
    /\ liberados = [salas |-> <<>>, pistas |-> <<>>, entradas |-> <<>>]
    /\ lidos = 0
    /\ eof = FALSE
    /\ coletas = [r \in 1 .. NumSalas |-> 0]
    /\ falhas = {}
    /\ ultimaInsercao = <<>>
    /\ alocados = [salas |-> 0, nos |-> 0, entradas |-> 0]
    /\ fases = <<>>
    /\ caminho = <<>>

\* ColetarPista without salaAtual->pista[0] = '\0': the clue stays in the room
ColetarPista_SemLimpar(m, sala, alocouNo, alocouEntry) ==
    LET s == m[sala]
    IN  IF Len(s.pista) = 0
        THEN /\ mapa' = m
             /\ pc' = "prompt"
             /\ alocados' = [alocados EXCEPT !.salas = Len(m)]
             /\ UNCHANGED <<pistasColetadas, hashSuspeitos, coletas, falhas,
                            ultimaInsercao, codigoSaida>>
        ELSE IF InserirAloca(pistasColetadas, s.pista) /\ ~alocouNo
        THEN \* criarPistaNode: exit(EXIT_FAILURE)
             /\ mapa' = m
             /\ pc' = "abortado"
             /\ codigoSaida' = EXIT_FAILURE
             /\ falhas' = falhas \cup {"criarPistaNode"}
             /\ alocados' = [alocados EXCEPT !.salas = Len(m)]
             /\ UNCHANGED <<pistasColetadas, hashSuspeitos, coletas,
                            ultimaInsercao>>
        ELSE /\ pistasColetadas' = inserirPista(pistasColetadas, s.pista)
             /\ hashSuspeitos' = inserirNaHash(hashSuspeitos, s.pista,
                                               s.suspeito_alvo, alocouEntry, ctype)
             /\ falhas' = IF alocouEntry THEN falhas
                          ELSE falhas \cup {"inserirNaHash"}
             /\ alocados' =
                   [salas    |-> Len(m),
                    nos      |-> alocados.nos
                                 + (IF InserirAloca(pistasColetadas, s.pista)
                                    THEN 1 ELSE 0),
                    entradas |-> alocados.entradas + (IF alocouEntry THEN 1 ELSE 0)]
             /\ ultimaInsercao' = <<[pista |-> s.pista, suspeito |-> s.suspeito_alvo]>>
             /\ mapa' = m
             /\ coletas' = [coletas EXCEPT ![sala] = @ + 1]
             /\ pc' = "prompt"
             /\ UNCHANGED codigoSaida

\* explorarSalas, from the top of the while body to the scanf, in room sala
\* of map m: the clue of the room, if any, goes to the BST and to the hash
\* table and is erased from the room.  alocouNo and alocouEntry are the
\* outcomes of the malloc calls of criarPistaNode and inserirNaHash.
ColetarPista(m, sala, alocouNo, alocouEntry) ==
    LET s == m[sala]
    IN  IF Len(s.pista) = 0
        THEN /\ mapa' = m
             /\ pc' = "prompt"
             /\ alocados' = [alocados EXCEPT !.salas = Len(m)]
             /\ UNCHANGED <<pistasColetadas, hashSuspeitos, coletas, falhas,
                            ultimaInsercao, codigoSaida>>
        ELSE IF InserirAloca(pistasColetadas, s.pista) /\ ~alocouNo
        THEN \* criarPistaNode: exit(EXIT_FAILURE)
             /\ mapa' = m
             /\ pc' = "abortado"
             /\ codigoSaida' = EXIT_FAILURE
             /\ falhas' = falhas \cup {"criarPistaNode"}
             /\ alocados' = [alocados EXCEPT !.salas = Len(m)]
             /\ UNCHANGED <<pistasColetadas, hashSuspeitos, coletas,
                            ultimaInsercao>>
        ELSE /\ pistasColetadas' = inserirPista(pistasColetadas, s.pista)
             /\ hashSuspeitos' = inserirNaHash(hashSuspeitos, s.pista,
                                               s.suspeito_alvo, alocouEntry, ctype)
             /\ falhas' = IF alocouEntry THEN falhas
                          ELSE falhas \cup {"inserirNaHash"}
             /\ alocados' =
                   [salas    |-> Len(m),
                    nos      |-> alocados.nos
                                 + (IF InserirAloca(pistasColetadas, s.pista)
                                    THEN 1 ELSE 0),
                    entradas |-> alocados.entradas + (IF alocouEntry THEN 1 ELSE 0)]
             /\ ultimaInsercao' = <<[pista |-> s.pista, suspeito |-> s.suspeito_alvo]>>
             /\ mapa' = [m EXCEPT ![sala].pista = <<>>]
             /\ coletas' = [coletas EXCEPT ![sala] = @ + 1]
             /\ pc' = "prompt"
             /\ UNCHANGED codigoSaida

\* main, steps 1 to 3 up to the first scanf: the map is built (criadas rooms
\* are allocated before a malloc of criarSala fails, if one does), the hash
\* table is initialized and explorarSalas enters the hall
Iniciar ==
    /\ pc = "inicio"
    /\ \E criadas \in 0 .. NumSalas, alocouNo \in BOOLEAN, alocouEntry \in BOOLEAN :
          IF criadas < NumSalas
          THEN /\ mapa' = MapaAte(criadas)
               /\ pc' = "abortado"
               /\ codigoSaida' = EXIT_FAILURE
               /\ falhas' = falhas \cup {"criarSala"}
               /\ alocados' = [alocados EXCEPT !.salas = criadas]
               /\ UNCHANGED <<salaAtual, pistasColetadas, hashSuspeitos, coletas,
                              ultimaInsercao, fases, caminho>>
          ELSE /\ salaAtual' = 1
               /\ caminho' = <<1>>
               /\ fases' = <<"mapa", "exploracao">>
               /\ ColetarPista(MapaAte(NumSalas), 1, alocouNo, alocouEntry)
    /\ UNCHANGED <<ctype, escolha, acusado, contagem, veredito, liberados,
                   lidos, eof>>

\* main, step 5 and return 0; feitas are the phases of verificarSuspeitoFinal
\* gone through before
Encerrar(feitas) ==
    /\ liberados' = [salas    |-> liberarMapa(mapa, 1),
                     pistas   |-> liberarPistas(pistasColetadas),
                     entradas |-> liberarHash(hashSuspeitos)]
    /\ fases' = fases \o feitas \o <<"liberacao">>
    /\ codigoSaida' = 0
    /\ pc' = "fim"

\* SairDoLaco with the test of verificarSuspeitoFinal inverted: the early
\* return is taken when clues were collected
SairDoLaco_TesteInvertido ==
    /\ UNCHANGED <<mapa, salaAtual, pistasColetadas, hashSuspeitos, coletas,
                   falhas, ultimaInsercao, acusado, contagem, veredito,
                   alocados, caminho>>
    /\ IF pistasColetadas # NULL
       THEN Encerrar(<<>>)
       ELSE /\ pc' = "acusacao"
            /\ UNCHANGED <<liberados, codigoSaida, fases>>

\* the break of explorarSalas, then verificarSuspeitoFinal up to its scanf,
\* or up to its early return and the end of main when no clue was collected
SairDoLaco ==
    /\ UNCHANGED <<mapa, salaAtual, pistasColetadas, hashSuspeitos, coletas,
                   falhas, ultimaInsercao, acusado, contagem, veredito,
                   alocados, caminho>>
    /\ IF pistasColetadas = NULL
       THEN Encerrar(<<>>)
       ELSE /\ pc' = "acusacao"
            /\ UNCHANGED <<liberados, codigoSaida, fases>>

\* Destino that goes back to the hall when the direction has no room
Destino_VoltaAoHall(m, sala, c) ==
    IF EhEsquerda(c) THEN (IF m[sala].esquerda # 0 THEN m[sala].esquerda ELSE 1)
    ELSE IF EhDireita(c) THEN (IF m[sala].direita # 0 THEN m[sala].direita ELSE 1)
    ELSE sala

\* Destino with any character other than d, D taken as "left"
Destino_OutroEhEsquerda(m, sala, c) ==
    IF ~EhDireita(c) /\ m[sala].esquerda # 0 THEN m[sala].esquerda
    ELSE IF EhDireita(c) /\ m[sala].direita # 0 THEN m[sala].direita
    ELSE sala

\* the room the choice c leads to from room sala: the child when it exists,
\* the room itself otherwise
Destino(m, sala, c) ==
    IF EhEsquerda(c) /\ m[sala].esquerda # 0 THEN m[sala].esquerda
    ELSE IF EhDireita(c) /\ m[sala].direita # 0 THEN m[sala].direita
    ELSE sala

\* explorarSalas: scanf(" %c", &escolha) returns, the choice is followed and
\* the loop runs to the next scanf.  entrada is the character read, 0 when
\* stdin is at end of file: escolha then keeps its value, an indeterminate
\* one (lixo) if it was never assigned.
LerEscolha ==
    /\ pc = "prompt"
    /\ lidos < MaxLidos
    /\ lidos' = lidos + 1
    /\ \E entrada \in Teclas \cup {0}, alocouNo \in BOOLEAN, alocouEntry \in BOOLEAN :
       \E lixo \in IF escolha = <<>> /\ (eof \/ entrada = 0) THEN Teclas ELSE {0} :
          LET falhou == eof \/ entrada = 0
              c == IF ~falhou THEN entrada
                   ELSE IF escolha = <<>> THEN lixo ELSE escolha[1]
          IN  /\ eof' = falhou
              /\ escolha' = <<c>>
              /\ IF EhSair(c)
                 THEN SairDoLaco
                 ELSE /\ salaAtual' = Destino(mapa, salaAtual, c)
                      /\ caminho' = IF Destino(mapa, salaAtual, c) # salaAtual
                                    THEN Append(caminho, Destino(mapa, salaAtual, c))
                                    ELSE caminho
                      /\ ColetarPista(mapa, Destino(mapa, salaAtual, c),
                                      alocouNo, alocouEntry)
                      /\ UNCHANGED <<acusado, contagem, veredito, liberados, fases>>
    /\ UNCHANGED ctype

\* verificarSuspeitoFinal with ">" in place of ">=" in the evaluation
Avaliacao_MaiorQue(n) ==
    IF n > pistas_minimas THEN "sustentada" ELSE "fraca"

\* verificarSuspeitoFinal, the evaluation: if (contagem >= pistas_minimas)
Avaliacao(n) ==
    IF n >= pistas_minimas THEN "sustentada" ELSE "fraca"

\* verificarSuspeitoFinal from scanf(" %49[^\n]", acusado) to its end, then
\* the end of main.  entrada is what is pending on stdin; when the conversion
\* fails acusado keeps its indeterminate contents (lixo).
LerAcusacao ==
    /\ pc = "acusacao"
    /\ lidos < MaxLidos
    /\ lidos' = lidos + 1
    /\ \E entrada \in Entradas :
       \E lixo \in IF eof \/ LerLinha(entrada) = <<>> THEN Lixo ELSE {<<>>} :
          LET falhou == eof \/ LerLinha(entrada) = <<>>
              nome   == IF falhou THEN lixo ELSE LerLinha(entrada)
              n      == contarPistasParaSuspeito(pistasColetadas, hashSuspeitos,
                                                 nome, ctype)
          IN  /\ eof' = falhou
              /\ acusado' = <<nome>>
              /\ contagem' = n
              /\ veredito' = Avaliacao(n)
    /\ Encerrar(<<"acusacao", "contagem", "veredito">>)
    /\ UNCHANGED <<ctype, mapa, salaAtual, escolha, pistasColetadas,
                   hashSuspeitos, coletas, falhas, ultimaInsercao, alocados,
                   caminho>>

Next == Iniciar \/ LerEscolha \/ LerAcusacao

Spec == Init /\ [][Next]_vars

(* The data structures on their own: any sequence of inserirPista and      *)
(* inserirNaHash calls, with keys and suspects drawn from small sets.      *)

\* "A", "a", "ab", "k" and "\xc3\xa1": two keys that differ in case only,
\* a key that is a prefix of another, two keys of the same bucket, and a
\* key of bytes above 127
ChavesTeste == { <<65>>, <<97>>, <<97, 98>>, <<107>>, <<195, 161>> }

SuspeitosTeste == { CoronelMostarda, DBranca }

RECURSIVE NumNos(_)
NumNos(raiz) ==
    IF raiz = NULL THEN 0 ELSE 1 + NumNos(raiz[2]) + NumNos(raiz[3])

RECURSIVE EntradasDesde(_, _)
EntradasDesde(sh, i) ==
    IF i >= TAMANHO_HASH THEN 0 ELSE Len(sh[i]) + EntradasDesde(sh, i + 1)

\* the number of entries of the table
NumEntradas(sh) == EntradasDesde(sh, 0)

InitEstruturas ==
    /\ pc = "estruturas"
    /\ ctype \in CtypeModos
    /\ mapa = <<>>
    /\ salaAtual = 0
    /\ escolha = <<>>
    /\ pistasColetadas = NULL
    /\ hashSuspeitos = inicializarHash
    /\ acusado = <<>>
    /\ contagem = -1
    /\ veredito = "nenhum"
    /\ codigoSaida = -1
    /\ liberados = [salas |-> <<>>, pistas |-> <<>>, entradas |-> <<>>]
    /\ lidos = 0
    /\ eof = FALSE
    /\ coletas = [r \in 1 .. NumSalas |-> 0]
    /\ falhas = {}
    /\ ultimaInsercao = <<>>
    /\ alocados = [salas |-> 0, nos |-> 0, entradas |-> 0]
    /\ fases = <<>>
    /\ caminho = <<>>

\* pistasColetadas = inserirPista(pistasColetadas, chave), when the malloc of
\* criarPistaNode, if reached, succeeds
ChamarInserirPista ==
    /\ pc = "estruturas"
    /\ \E chave \in ChavesTeste :
          /\ NumNos(pistasColetadas) < MaxNos \/ ~InserirAloca(pistasColetadas, chave)
          /\ pistasColetadas' = inserirPista(pistasColetadas, chave)
          /\ alocados' = [alocados EXCEPT !.nos =
                              @ + (IF InserirAloca(pistasColetadas, chave)
                                   THEN 1 ELSE 0)]
    /\ UNCHANGED <<pc, ctype, mapa, salaAtual, escolha, hashSuspeitos, acusado,
                   contagem, veredito, codigoSaida, liberados, lidos, eof,
                   coletas, falhas, ultimaInsercao, fases, caminho>>

\* inserirNaHash(&hashSuspeitos, chave, suspeito)
ChamarInserirNaHash ==
    /\ pc = "estruturas"
    /\ NumEntradas(hashSuspeitos) < MaxEntradas
    /\ \E chave \in ChavesTeste, suspeito \in SuspeitosTeste, alocou \in BOOLEAN :
          /\ hashSuspeitos' = inserirNaHash(hashSuspeitos, chave, suspeito,
                                            alocou, ctype)
          /\ falhas' = IF alocou THEN falhas ELSE falhas \cup {"inserirNaHash"}
          /\ ultimaInsercao' = <<[pista |-> chave, suspeito |-> suspeito]>>
          /\ alocados' = [alocados EXCEPT !.entradas =
                              @ + (IF alocou THEN 1 ELSE 0)]
    /\ UNCHANGED <<pc, ctype, mapa, salaAtual, escolha, pistasColetadas, acusado,
                   contagem, veredito, codigoSaida, liberados, lidos, eof,
                   coletas, fases, caminho>>

\* any sequence of insertions into the clue tree
NextArvore == ChamarInserirPista

SpecArvore == InitEstruturas /\ [][NextArvore]_vars

\* any sequence of insertions into the hash table
NextHash == ChamarInserirNaHash

SpecHash == InitEstruturas /\ [][NextHash]_vars

(* Properties *)

\* the room has neither a left nor a right child
EhFolha(m, sala) == m[sala].esquerda = 0 /\ m[sala].direita = 0

\* the set of the clue texts stored in the nodes of a tree
RECURSIVE ChavesDe(_)
ChavesDe(raiz) ==
    IF raiz = NULL THEN {}
    ELSE {raiz[1]} \cup ChavesDe(raiz[2]) \cup ChavesDe(raiz[3])

\* the rooms whose clue has been collected
Visitadas == {r \in 1 .. NumSalas : coletas[r] > 0}

\* C1: in the exploration loop, when the current room has no child, whatever
\* is read next ends the loop (control goes on to the judgment).
C1_FolhaEncerraExploracao ==
    [][(pc = "prompt" /\ EhFolha(mapa, salaAtual)) => pc' \in {"acusacao", "fim"}]_vars

\* C2: once a malloc has returned NULL (in criarSala, criarPistaNode or
\* inserirNaHash) the process has exited with EXIT_FAILURE: it is not
\* exploring, judging or finished with code 0.
C2_FalhaDeAlocacaoAborta ==
    falhas # {} => (pc = "abortado" /\ codigoSaida = EXIT_FAILURE)

\* C4: at judgment time the count of contarPistasParaSuspeito is, for every
\* name, the number of distinct clue texts of the BST whose suspect found in
\* the hash table is that very string; the count stored for the accused at
\* the end of the run is that number.
C4_ContagemExata ==
    /\ pc = "acusacao" =>
          \A nome \in {LerLinha(e) : e \in Entradas} \cup Lixo :
              contarPistasParaSuspeito(pistasColetadas, hashSuspeitos, nome, ctype)
              = Cardinality({k \in ChavesDe(pistasColetadas) :
                    encontrarSuspeito(hashSuspeitos, k, ctype) = <<nome>>})
    /\ (pc = "fim" /\ acusado # <<>>) =>
          contagem = Cardinality({k \in ChavesDe(pistasColetadas) :
                        encontrarSuspeito(hashSuspeitos, k, ctype) = acusado})

\* C4 witness: a finished run with three clues in the BST, one of them
\* without an entry in the hash table, and one clue counted
C4_Witness ==
    /\ pc = "fim"
    /\ contagem = 1
    /\ Cardinality(ChavesDe(pistasColetadas)) = 3
    /\ \E k \in ChavesDe(pistasColetadas) :
          encontrarSuspeito(hashSuspeitos, k, ctype) = NULL

\* C5: the clue of a room is collected at most once, and once collected the
\* clue field of the room is empty.
C5_ColetaUnica ==
    \A r \in DOMAIN mapa :
        /\ coletas[r] <= 1
        /\ coletas[r] = 1 => mapa[r].pista = <<>>

\* C5 witness: the loop has read two inputs and is still in the hall, whose
\* clue was collected on entry
C5_Witness ==
    /\ pc = "prompt"
    /\ salaAtual = 1
    /\ lidos >= 2
    /\ coletas[1] = 1

\* C6: inserting a text adds exactly one node when the text is absent and
\* none when it is present; inserting it again leaves the tree as it is; no
\* text is in two nodes.
C6_InsercaoIdempotente ==
    \A chave \in ChavesTeste :
        LET t1 == inserirPista(pistasColetadas, chave)
            t2 == inserirPista(t1, chave)
        IN  /\ t2 = t1
            /\ NumNos(t1) = NumNos(pistasColetadas)
                            + (IF chave \in ChavesDe(pistasColetadas) THEN 0 ELSE 1)
            /\ chave \in ChavesDe(pistasColetadas) => t1 = pistasColetadas
            /\ Cardinality(ChavesDe(t1)) = NumNos(t1)

\* C6 witness: a tree of three nodes, so that some test keys are present and
\* some absent
C6_Witness ==
    /\ pc = "estruturas"
    /\ NumNos(pistasColetadas) = 3
    /\ ChavesDe(pistasColetadas) \cap ChavesTeste # {}
    /\ ChavesTeste \ ChavesDe(pistasColetadas) # {}

\* the sequence is in non-decreasing strcmp order
Ordenada(seq) ==
    \A i \in 1 .. Len(seq) : \A j \in i .. Len(seq) : strcmp(seq[i], seq[j]) <= 0

\* every node has only smaller keys in its left subtree and only larger
\* keys in its right subtree
RECURSIVE EhBST(_)
EhBST(raiz) ==
    \/ raiz = NULL
    \/ /\ \A k \in ChavesDe(raiz[2]) : strcmp(k, raiz[1]) < 0
       /\ \A k \in ChavesDe(raiz[3]) : strcmp(k, raiz[1]) > 0
       /\ EhBST(raiz[2])
       /\ EhBST(raiz[3])

\* C7: after any sequence of insertions the in-order traversal of
\* exibirPistas lists the clues in non-decreasing strcmp order, and the tree
\* is a search tree.
C7_EmOrdem ==
    /\ Ordenada(exibirPistas(pistasColetadas))
    /\ EhBST(pistasColetadas)

\* C7 witness: a tree whose root has a left and a right subtree, one of
\* them with two nodes
C7_Witness ==
    /\ pc = "estruturas"
    /\ pistasColetadas # NULL
    /\ pistasColetadas[2] # NULL
    /\ pistasColetadas[3] # NULL
    /\ NumNos(pistasColetadas) >= 4

\* C8: after inserirNaHash(clue, suspect), encontrarSuspeito(clue) returns
\* that suspect.
C8_ConsultaAposInsercao ==
    ultimaInsercao # <<>> =>
        encontrarSuspeito(hashSuspeitos, ultimaInsercao[1].pista, ctype)
        = <<ultimaInsercao[1].suspeito>>

\* C9: when the accused name is not the suspect label of any room of the
\* mansion, the count is 0 and the verdict is weak.
C9_NomeAlheioFraca ==
    (pc = "fim" /\ acusado # <<>>
        /\ \A r \in 1 .. NumSalas : <<SalasDeMain[r].alvo>> # acusado)
    => (contagem = 0 /\ veredito = "fraca")

\* C9 witness: after the walk Hall, Cozinha, Despensa the player accused
\* "coronel mostarda", which is no room's suspect label
C9_Witness ==
    /\ pc = "fim"
    /\ coletas[6] = 1
    /\ acusado = <<MostardaMinusculo>>
    /\ veredito = "fraca"

\* the character is not a way out of the room: a direction without a child,
\* or none of e, E, d, D, s, S
EscolhaSemEfeito(m, sala, c) ==
    \/ EhEsquerda(c) /\ m[sala].esquerda = 0
    \/ EhDireita(c) /\ m[sala].direita = 0
    \/ ~(EhEsquerda(c) \/ EhDireita(c) \/ EhSair(c))

\* C10: when the character read at the prompt is an unavailable direction
\* or an unrecognized character, the loop prompts again with the current
\* room, the map, the BST and the hash table unchanged, and the process
\* still running.
C10_EscolhaInvalidaRepete ==
    [][(pc = "prompt" /\ lidos' = lidos + 1 /\ ~eof'
            /\ EscolhaSemEfeito(mapa, salaAtual, escolha'[1]))
        => (/\ pc' = "prompt"
            /\ salaAtual' = salaAtual
            /\ mapa' = mapa
            /\ pistasColetadas' = pistasColetadas
            /\ hashSuspeitos' = hashSuspeitos
            /\ codigoSaida' = codigoSaida)]_vars

\* C10 witness: the loop prompts again in Biblioteca (room 4, entered with
\* 'e') after 'd' was read there
C10_Witness ==
    /\ pc = "prompt"
    /\ salaAtual = 4
    /\ escolha = <<100>>
    /\ ~eof

\* the nodes that a sequence of accesses frees
NosLiberados(acessos) ==
    {acessos[i].no : i \in {j \in DOMAIN acessos : acessos[j].op = "free"}}

\* the number of free() calls in a sequence of accesses
NumFree(acessos) ==
    Cardinality({j \in DOMAIN acessos : acessos[j].op = "free"})

\* no node is read or freed again after free() was called on it
SemAcessoAposFree(acessos) ==
    \A i, j \in DOMAIN acessos :
        (i < j /\ acessos[i].op = "free") => acessos[j].no # acessos[i].no

\* the entries of a table, each named by its bucket and its place in the chain
EntradasDe(sh) ==
    UNION {{<<i, k>> : k \in DOMAIN sh[i]} : i \in 0 .. TAMANHO_HASH - 1}

\* C11: when the program has returned 0, the rooms, the BST nodes and the
\* hash entries freed are exactly those allocated during the run, each freed
\* by exactly one free() call, and no node is accessed after its free().
C11_TudoLiberadoUmaVez ==
    (pc = "fim" /\ codigoSaida = 0) =>
        /\ NumFree(liberados.salas) = alocados.salas
        /\ Cardinality(NosLiberados(liberados.salas)) = alocados.salas
        /\ NosLiberados(liberados.salas) = DOMAIN mapa
        /\ SemAcessoAposFree(liberados.salas)
        /\ NumFree(liberados.pistas) = alocados.nos
        /\ Cardinality(NosLiberados(liberados.pistas)) = alocados.nos
        /\ NosLiberados(liberados.pistas) = ChavesDe(pistasColetadas)
        /\ SemAcessoAposFree(liberados.pistas)
        /\ NumFree(liberados.entradas) = alocados.entradas
        /\ Cardinality(NosLiberados(liberados.entradas)) = alocados.entradas
        /\ NosLiberados(liberados.entradas) = EntradasDe(hashSuspeitos)
        /\ SemAcessoAposFree(liberados.entradas)

\* C11 witness: the program has returned 0 after freeing the seven rooms,
\* three BST nodes and three hash entries, two of them in one chain
C11_Witness ==
    /\ pc = "fim"
    /\ codigoSaida = 0
    /\ alocados = [salas |-> 7, nos |-> 3, entradas |-> 3]
    /\ NumFree(liberados.entradas) = 3
    /\ \E i \in 0 .. TAMANHO_HASH - 1 : Len(hashSuspeitos[i]) = 2

\* the phases of main, in the order of the source
FasesDeMain ==
    <<"mapa", "exploracao", "acusacao", "contagem", "veredito", "liberacao">>

\* C12: the phases entered are always an initial part of: map built,
\* exploration, accusation read, clues counted, verdict printed, memory
\* freed; when the program has returned 0 all six were gone through, each
\* once, and a verdict was printed; and the BST and the hash table change
\* only in a step of the exploration (the entry in the hall or a choice
\* read in the loop), never once the loop has ended.
C12_FasesEmOrdem ==
    /\ [](\E n \in 0 .. Len(FasesDeMain) : fases = SubSeq(FasesDeMain, 1, n))
    /\ []((pc = "fim" /\ codigoSaida = 0)
            => (fases = FasesDeMain /\ veredito \in {"sustentada", "fraca"}))
    /\ [][(pistasColetadas' # pistasColetadas \/ hashSuspeitos' # hashSuspeitos)
            => (/\ pc \in {"inicio", "prompt"}
                /\ pc' \in {"prompt", "abortado"}
                /\ fases' = <<"mapa", "exploracao">>)]_vars

\* C12 witness: the program has returned 0 after the six phases, with two
\* rooms entered and the accusation judged weak
C12_Witness ==
    /\ pc = "fim"
    /\ codigoSaida = 0
    /\ fases = FasesDeMain
    /\ Len(caminho) = 2
    /\ veredito = "fraca"

\* C13: when the program has ended after an accusation, the verdict is
\* "sustentada" exactly when the count of matching clues is at least 2 and
\* "fraca" exactly when it is less than 2; the evaluation gives the same
\* answer for every count up to the number of rooms, whatever was collected.
C13_LimiarDois ==
    /\ (pc = "fim" /\ acusado # <<>>) =>
          /\ (veredito = "sustentada") <=> (contagem >= 2)
          /\ (veredito = "fraca") <=> (contagem < 2)
    /\ \A n \in 0 .. NumSalas :
          /\ (Avaliacao(n) = "sustentada") <=> (n >= 2)
          /\ (Avaliacao(n) = "fraca") <=> (n < 2)

\* C13 witness: D. Branca accused with exactly two matching clues among the
\* three collected, judged sustained
C13_Witness ==
    /\ pc = "fim"
    /\ acusado = <<DBranca>>
    /\ contagem = 2
    /\ Cardinality(ChavesDe(pistasColetadas)) = 3
    /\ veredito = "sustentada"

\* the set of the clue texts that are keys of entries of a table
ChavesDaHash(sh) ==
    {sh[e[1]][e[2]].pista : e \in EntradasDe(sh)}

\* C14: at every point of a run without allocation failure, the keys of the
\* hash table are exactly the clue texts of the BST, the table has one
\* entry per clue text, and no chain holds two entries with the same clue.
C14_UmaEntradaPorPista ==
    falhas = {} =>
        /\ ChavesDaHash(hashSuspeitos) = ChavesDe(pistasColetadas)
        /\ NumEntradas(hashSuspeitos) = Cardinality(ChavesDe(pistasColetadas))
        /\ \A i \in 0 .. TAMANHO_HASH - 1 :
              \A j, k \in DOMAIN hashSuspeitos[i] :
                  j # k => hashSuspeitos[i][j].pista # hashSuspeitos[i][k].pista

\* C14 witness: in the loop, without allocation failure, three clues are
\* collected and two of their entries share one chain
C14_Witness ==
    /\ pc = "prompt"
    /\ falhas = {}
    /\ Cardinality(ChavesDe(pistasColetadas)) = 3
    /\ NumEntradas(hashSuspeitos) = 3
    /\ \E i \in 0 .. TAMANHO_HASH - 1 : Len(hashSuspeitos[i]) = 2

\* s with its ASCII letters a-z in upper case
ParaMaiusculas(s) ==
    [i \in DOMAIN s |-> IF s[i] >= 97 /\ s[i] <= 122 THEN s[i] - 32 ELSE s[i]]

\* s with its ASCII letters A-Z in lower case
ParaMinusculas(s) ==
    [i \in DOMAIN s |-> IF s[i] >= 65 /\ s[i] <= 90 THEN s[i] + 32 ELSE s[i]]

\* s with the case of each of its ASCII letters changed
InverterCaixa(s) ==
    [i \in DOMAIN s |-> IF s[i] >= 97 /\ s[i] <= 122 THEN s[i] - 32
                        ELSE IF s[i] >= 65 /\ s[i] <= 90 THEN s[i] + 32
                        ELSE s[i]]

\* s in upper case, its accented letters included: in the UTF-8 text of the
\* source the letters a grave .. thorn are the bytes C3 A0 .. C3 BE (C3 B7 is
\* the division sign) and their capitals are C3 80 .. C3 9E
ParaMaiusculasUTF8(s) ==
    [i \in DOMAIN s |->
        IF s[i] >= 97 /\ s[i] <= 122 THEN s[i] - 32
        ELSE IF i > 1 /\ s[i - 1] = 195 /\ s[i] >= 160 /\ s[i] <= 190 /\ s[i] # 183
             THEN s[i] - 32
        ELSE s[i]]

\* C15 as stated: every clue stored in the table is in the bucket that
\* calcularHash gives for the clue and for the same text with the case of
\* its letters changed (accented letters included), and that index is in
\* 0 .. 9.
C15_HashSemCaixa ==
    \A i \in 0 .. TAMANHO_HASH - 1 : \A k \in DOMAIN hashSuspeitos[i] :
        LET p == hashSuspeitos[i][k].pista
        IN  /\ calcularHash(p, ctype) = i
            /\ calcularHash(ParaMaiusculas(p), ctype) = i
            /\ calcularHash(ParaMinusculas(p), ctype) = i
            /\ calcularHash(ParaMaiusculasUTF8(p), ctype) = i

\* C15 amended: tolower maps A-Z to a-z and leaves a-z alone; every clue
\* stored in the table is in the bucket that calcularHash gives for the
\* clue and for the same text with the case of its ASCII letters changed
\* (all upper, all lower, each one inverted); the accumulator is a 64-bit
\* value and the index of any of these texts, and of the text with its
\* accented letters capitalized too, is in 0 .. 9.
C15_HashSemCaixaASCII ==
    /\ \A c \in 65 .. 90 :
          tolower(c, ctype) = c + 32 /\ tolower(c + 32, ctype) = c + 32
    /\ \A i \in 0 .. TAMANHO_HASH - 1 : \A k \in DOMAIN hashSuspeitos[i] :
          LET p == hashSuspeitos[i][k].pista
              h == HashLoop(ULongDe(SementeHash), p, ctype)
          IN  /\ calcularHash(p, ctype) = i
              /\ calcularHash(ParaMaiusculas(p), ctype) = i
              /\ calcularHash(ParaMinusculas(p), ctype) = i
              /\ calcularHash(InverterCaixa(p), ctype) = i
              /\ \A n \in 1 .. 4 : h[n] \in 0 .. Base - 1
              /\ calcularHash(ParaMaiusculasUTF8(p), ctype) \in 0 .. TAMANHO_HASH - 1

\* C15 witness: the clue of Jardim de Inverno, which has an accented
\* letter, is stored in the table, with two other clues
C15_Witness ==
    /\ pc = "prompt"
    /\ salaAtual = 7
    /\ NumEntradas(hashSuspeitos) = 3
    /\ SalasDeMain[7].pista \in ChavesDaHash(hashSuspeitos)
    /\ ParaMaiusculasUTF8(SalasDeMain[7].pista) # ParaMaiusculas(SalasDeMain[7].pista)

\* the children of a room
FilhosDe(m, sala) == {m[sala].esquerda, m[sala].direita} \ {0}

\* the depth of the tree of rooms under raiz: the number of edges of its
\* longest descent (-1 for NULL)
RECURSIVE Altura(_, _)
Altura(m, raiz) ==
    IF raiz = 0 THEN -1
    ELSE LET e == Altura(m, m[raiz].esquerda)
             d == Altura(m, m[raiz].direita)
         IN  1 + (IF e > d THEN e ELSE d)

\* C16: the current room only changes from no room to the hall or from a
\* room to one of its children; the rooms entered form one path that starts
\* at the hall, ends at the current room, goes from each room to one of its
\* children and never repeats a room; the number of room changes is at most
\* the depth of the map; the clues collected are clues of rooms of that path.
C16_DescidaPura ==
    /\ [][salaAtual' # salaAtual =>
              IF salaAtual = 0 THEN salaAtual' = 1
              ELSE salaAtual' \in FilhosDe(mapa, salaAtual)]_vars
    /\ [](caminho # <<>> =>
            /\ caminho[1] = 1
            /\ caminho[Len(caminho)] = salaAtual
            /\ \A i \in 1 .. Len(caminho) - 1 :
                  caminho[i + 1] \in FilhosDe(mapa, caminho[i])
            /\ \A i, j \in DOMAIN caminho : i # j => caminho[i] # caminho[j]
            /\ Len(caminho) - 1 <= Altura(mapa, 1)
            /\ ChavesDe(pistasColetadas)
                  \subseteq {SalasDeMain[caminho[i]].pista : i \in DOMAIN caminho}
            /\ Visitadas \subseteq {caminho[i] : i \in DOMAIN caminho})

\* C16 witness: after hall, Cozinha and Despensa, a further choice was read
\* in Despensa, which has no child, and the loop prompts there again
C16_Witness ==
    /\ pc = "prompt"
    /\ caminho = <<1, 3, 6>>
    /\ EhFolha(mapa, salaAtual)
    /\ lidos = 4
    /\ Cardinality(ChavesDe(pistasColetadas)) = 3

====
